---- MODULE Spec2Model ----
(***************************************************************************)
(* pgp-mfa: the challenge command (length validation, key selection,       *)
(* challenge generation, encryption, expiry, verification loop) and the    *)
(* challenge generator as the benchmarks call it.                          *)
(*                                                                         *)
(* Strings and byte slices are sequences of byte values 0..255.            *)
(* Time is a monotonic clock reading in seconds.                           *)
(***************************************************************************)
EXTENDS Integers, Sequences, FiniteSets, TLC

(***************************************************************************)
(* Bounds of the model                                                     *)
(***************************************************************************)
\* largest number written as a length argument of the challenge command
MaxLengthArg == 1030
\* largest length the generator is called with directly (besides the
\* benchmark lengths)
MaxGenLen == 18
\* longest candidate line content (without the newline)
MaxLine == 2
\* submissions evaluated in one run of the verification loop
MaxAttempts == 4
\* last clock reading of a run
MaxTime == 120
\* runs of the import command in a row
MaxImports == 3
\* largest b.N a benchmark is run with
MaxBenchN == 2

(***************************************************************************)
(* Bytes and strings                                                       *)
(***************************************************************************)
Byte == 0..255

NL == 10

\* main.go:24, the interpreted string literal: \\ is one backslash (92) and
\* \" is one double quote (34)
challengeCharset ==
  << 97, 98, 99, 100, 101, 102, 103, 104, 105, 106, 107, 108, 109,
     110, 111, 112, 113, 114, 115, 116, 117, 118, 119, 120, 121, 122,
     65, 66, 67, 68, 69, 70, 71, 72, 73, 74, 75, 76, 77,
     78, 79, 80, 81, 82, 83, 84, 85, 86, 87, 88, 89, 90,
     48, 49, 50, 51, 52, 53, 54, 55, 56, 57,
     45, 95, 43, 47, 92, 39, 34,
     33, 64, 35, 36, 37, 94, 38, 42, 40, 41,
     91, 93, 123, 125, 60, 62,
     63, 44, 46, 59, 58 >>

CharsetSet == { challengeCharset[i] : i \in 1..Len(challengeCharset) }

RECURSIVE Digits(_)
\* decimal digits of n >= 0 as characters (used to write the inputs)
Digits(n) == IF n < 10 THEN << 48 + n >>
             ELSE Append(Digits(n \div 10), 48 + (n % 10))

Tail0(s) == IF Len(s) = 0 THEN s ELSE Tail(s)

RECURSIVE AtoiDigits(_, _)
\* the digit loop of strconv.Atoi's fast path: -1 when a byte is no digit
AtoiDigits(s, n) ==
  IF Len(s) = 0 THEN n
  ELSE IF Head(s) < 48 \/ Head(s) > 57 THEN -1
  ELSE AtoiDigits(Tail(s), n * 10 + (Head(s) - 48))

\* strconv.Atoi(s) for len(s) < 19: [n, err]; n = 0 on a syntax error
Atoi(s) ==
  LET signed == Len(s) > 0 /\ Head(s) \in {43, 45}
      body   == IF signed THEN Tail(s) ELSE s
      n      == AtoiDigits(body, 0)
  IN  IF Len(body) < 1 \/ n < 0 THEN [n |-> 0, err |-> TRUE]
      ELSE IF Len(s) > 0 /\ Head(s) = 45 THEN [n |-> 0 - n, err |-> FALSE]
      ELSE [n |-> n, err |-> FALSE]

RECURSIVE BitAnd(_, _)
\* x & y on non-negative integers
BitAnd(x, y) ==
  IF x = 0 \/ y = 0 THEN 0
  ELSE (x % 2) * (y % 2) + 2 * BitAnd(x \div 2, y \div 2)

RECURSIVE BitOr(_, _)
BitOr(x, y) ==
  IF x = 0 THEN y
  ELSE IF y = 0 THEN x
  ELSE (IF x % 2 = 1 \/ y % 2 = 1 THEN 1 ELSE 0) + 2 * BitOr(x \div 2, y \div 2)

RECURSIVE BitXor(_, _)
BitXor(x, y) ==
  IF x = 0 THEN y
  ELSE IF y = 0 THEN x
  ELSE (IF x % 2 # y % 2 THEN 1 ELSE 0) + 2 * BitXor(x \div 2, y \div 2)

(***************************************************************************)
(* Length validation, main.go:206-212                                      *)
(***************************************************************************)
MaxChallengeLength == 512

\* main.go:207-212 with the rejection of every length above the limit left out
ValidateLength_NoUpper(length) ==
  IF length <= 0 THEN "ErrChallengeLength"
  ELSE IF BitAnd(length, length - 1) # 0 THEN "ErrChallengePow"
  ELSE "nil"

\* main.go:207-212 with the power-of-two test left out
ValidateLength_NoPow(length) ==
  IF length <= 0 \/ length > MaxChallengeLength THEN "ErrChallengeLength"
  ELSE "nil"

\* main.go:207-212: the error the challenge command returns for a length
ValidateLength(length) ==
  IF length <= 0 \/ length > MaxChallengeLength THEN "ErrChallengeLength"
  ELSE IF BitAnd(length, length - 1) # 0 THEN "ErrChallengePow"
  ELSE "nil"

\* main.go:206: the error of Atoi is dropped, the length is 0 on a syntax error
ParseLength(arg) == Atoi(arg).n

(***************************************************************************)
(* generateChallenge, main.go:174-184                                      *)
(***************************************************************************)
\* byte(len(challengeCharset)): the conversion to byte keeps the low 8 bits
CharsetMod == Len(challengeCharset) % 256

\* the index main.go:181 computes for a random byte
CharsetIndex(b) == b % CharsetMod

\* challengeCharset[i] for a 0-based index; -1 stands for the runtime panic
\* of an index out of range
CharAt(i) == IF i >= 0 /\ i < Len(challengeCharset)
             THEN challengeCharset[i + 1] ELSE -1

\* main.go:181 leaving the random byte in place
Substitute_Keep(b) == b

\* main.go:181: the byte written back to buffer[i]
Substitute(b) == CharAt(CharsetIndex(b))

\* main.go:180-182: for i := 0; i < length; i++ { buffer[i] = ... }, from
\* index i on; iteration k reads and writes buffer[k] alone
GenLoop(buffer, i, length) ==
  [k \in 1..Len(buffer) |->
     IF k > i /\ k <= length THEN Substitute(buffer[k]) ELSE buffer[k]]

\* generateChallenge(length): rnd is what rand.Read put into the buffer of
\* `length` bytes, rngErr whether rand.Read failed.  make([]byte, length)
\* panics for a negative length; nothing in the function looks at the value
\* of length otherwise.  (make also fails for a length that cannot be
\* allocated; the lengths of the model are at most 1024 bytes.)
generateChallenge(length, rnd, rngErr) ==
  IF length < 0 THEN [status |-> "panic", bytes |-> << >>]
  ELSE IF rngErr THEN [status |-> "err", bytes |-> << >>]
  ELSE LET out == GenLoop(rnd, 0, length)
       IN  IF \E i \in 1..Len(out) : out[i] = -1
           THEN [status |-> "panic", bytes |-> << >>]
           ELSE [status |-> "nil", bytes |-> out]

\* the bytes rand.Read delivers in the model: an arithmetic progression
\* modulo 256 from a seed
RandBuffer(seed, stride, length) ==
  [i \in 1..(IF length < 0 THEN 0 ELSE length) |-> (seed + (i - 1) * stride) % 256]

(***************************************************************************)
(* strings.TrimSpace and subtle.ConstantTimeCompare, main.go:263           *)
(***************************************************************************)
\* the ASCII white space of strings.TrimSpace: \t \n \v \f \r and the space
AsciiSpace == {9, 10, 11, 12, 13, 32}

RECURSIVE TrimLeft(_)
TrimLeft(s) == IF Len(s) > 0 /\ Head(s) \in AsciiSpace THEN TrimLeft(Tail(s)) ELSE s

RECURSIVE TrimRight(_)
TrimRight(s) == IF Len(s) > 0 /\ s[Len(s)] \in AsciiSpace
                THEN TrimRight(SubSeq(s, 1, Len(s) - 1)) ELSE s

\* strings.TrimSpace on a string of bytes below 0x80
TrimSpace(s) == TrimRight(TrimLeft(s))

RECURSIVE XorFold(_, _, _, _)
\* subtle.ConstantTimeCompare: v |= x[i] ^ y[i] over every index
XorFold(x, y, i, v) ==
  IF i > Len(x) THEN v
  ELSE XorFold(x, y, i + 1, BitOr(v, BitXor(x[i], y[i])))

\* a comparison over the indexes the two operands share
ConstantTimeCompare_Prefix(x, y) ==
  LET m == IF Len(x) < Len(y) THEN Len(x) ELSE Len(y)
  IN  IF XorFold(SubSeq(x, 1, m), SubSeq(y, 1, m), 1, 0) = 0 THEN 1 ELSE 0

\* subtle.ConstantTimeCompare(x, y): 1 when equal, 0 otherwise, 0 at once
\* when the lengths differ
ConstantTimeCompare(x, y) ==
  IF Len(x) # Len(y) THEN 0
  ELSE IF XorFold(x, y, 1, 0) = 0 THEN 1 ELSE 0

(***************************************************************************)
(* Key store and key selection, main.go:121-172                            *)
(***************************************************************************)
\* strings.ToLower on ASCII
ToLower(s) == [i \in 1..Len(s) |-> IF s[i] >= 65 /\ s[i] <= 90 THEN s[i] + 32 ELSE s[i]]

\* fingerprints of the stored keys (lower-case hex, as GetFingerprint gives)
FpA == << 97, 49 >>
FpB == << 98, 50 >>

\* the rows of table keys a run starts with: fingerprint and created_at
Stores ==
  { << >>,
    << [fingerprint |-> FpA, created_at |-> 1] >>,
    << [fingerprint |-> FpA, created_at |-> 1], [fingerprint |-> FpB, created_at |-> 2] >> }

\* the rows in the order of the table, with no ORDER BY
OrderDesc_Stored(rows) == rows

RECURSIVE OrderDesc(_)
\* SELECT ... ORDER BY created_at DESC over rows with distinct created_at
OrderDesc(rows) ==
  IF Len(rows) = 0 THEN << >>
  ELSE LET m == CHOOSE i \in 1..Len(rows) :
                  \A j \in 1..Len(rows) : rows[j].created_at <= rows[i].created_at
           rest == [k \in 1..(Len(rows) - 1) |-> IF k < m THEN rows[k] ELSE rows[k + 1]]
       IN  << rows[m] >> \o OrderDesc(rest)

\* SELECT pub_key FROM keys WHERE fingerprint = ?
RowsWhere(rows, fp) == SelectSeq(rows, LAMBDA r : r.fingerprint = fp)

\* unicode/utf8: the size the first byte of an encoding announces, 0 for a
\* byte that starts none
RuneSize(b) ==
  IF b < 128 THEN 1 ELSE IF b < 194 THEN 0 ELSE IF b < 224 THEN 2
  ELSE IF b < 240 THEN 3 ELSE IF b < 245 THEN 4 ELSE 0

\* the range utf8 accepts for the second byte after the first byte b
AcceptLo(b) == IF b = 224 THEN 160 ELSE IF b = 240 THEN 144 ELSE 128
AcceptHi(b) == IF b = 237 THEN 159 ELSE IF b = 244 THEN 143 ELSE 191

\* utf8.RuneError
RuneError == 65533

\* utf8.FullRune: p begins with a whole encoding, or with an invalid one
FullRune(p) ==
  /\ Len(p) > 0
  /\ \/ RuneSize(p[1]) = 0
     \/ Len(p) >= RuneSize(p[1])
     \/ Len(p) > 1 /\ (p[2] < AcceptLo(p[1]) \/ p[2] > AcceptHi(p[1]))
     \/ Len(p) > 2 /\ (p[3] < 128 \/ p[3] > 191)

\* utf8.DecodeRune: [r, size]
DecodeRune(p) ==
  LET bad == [r |-> RuneError, size |-> 1]
  IN  IF Len(p) = 0 THEN [r |-> RuneError, size |-> 0]
      ELSE IF RuneSize(p[1]) = 1 THEN [r |-> p[1], size |-> 1]
      ELSE IF RuneSize(p[1]) = 0 \/ Len(p) < RuneSize(p[1]) THEN bad
      ELSE IF p[2] < AcceptLo(p[1]) \/ p[2] > AcceptHi(p[1]) THEN bad
      ELSE IF RuneSize(p[1]) = 2
      THEN [r |-> (p[1] % 32) * 64 + (p[2] % 64), size |-> 2]
      ELSE IF p[3] < 128 \/ p[3] > 191 THEN bad
      ELSE IF RuneSize(p[1]) = 3
      THEN [r |-> (p[1] % 16) * 4096 + (p[2] % 64) * 64 + (p[3] % 64), size |-> 3]
      ELSE IF p[4] < 128 \/ p[4] > 191 THEN bad
      ELSE [r |-> (p[1] % 8) * 262144 + (p[2] % 64) * 4096 + (p[3] % 64) * 64
                    + (p[4] % 64),
            size |-> 4]

\* fmt's isSpace
isSpace(r) ==
  r \in (9..13) \cup {32, 133, 160, 5760} \cup (8192..8202)
          \cup {8232, 8233, 8239, 8287, 12288}

\* the reader fmt puts around os.Stdin, which is no RuneScanner: in is what
\* waits on stdin, pend the bytes read ahead of an invalid encoding, peek the
\* rune that was unread (-1 for none)
NewReader(s) == [in |-> s, pend |-> << >>, peek |-> -1]

\* readRune.readByte: [ok, b, st]
ReadByte(st) ==
  IF Len(st.pend) > 0
  THEN [ok |-> TRUE, b |-> Head(st.pend), st |-> [st EXCEPT !.pend = Tail(@)]]
  ELSE IF Len(st.in) > 0
  THEN [ok |-> TRUE, b |-> Head(st.in), st |-> [st EXCEPT !.in = Tail(@)]]
  ELSE [ok |-> FALSE, b |-> 0, st |-> st]

RECURSIVE Gather(_, _)
\* one more byte for Gather, rb being what readByte gave
GatherNext(buf, rb, st) ==
  IF ~ rb.ok THEN [buf |-> buf, st |-> st]
  ELSE Gather(Append(buf, rb.b), rb.st)

\* the bytes readRune.ReadRune reads until they make a full rune or the
\* input ends: [buf, st]
Gather(buf, st) ==
  IF FullRune(buf) THEN [buf |-> buf, st |-> st]
  ELSE GatherNext(buf, ReadByte(st), st)

\* the rune d decoded from the bytes of g; the bytes read beyond the rune
\* are kept in pend
Decoded(g, d) ==
  [eof |-> FALSE, r |-> d.r,
   st |-> [g.st EXCEPT !.pend = @ \o SubSeq(g.buf, d.size + 1, Len(g.buf))]]

\* the bytes that follow a first byte which is not ASCII
Gathered(g) == Decoded(g, DecodeRune(g.buf))

\* the rune that begins with the byte b0 that readByte gave
RuneFrom(b0, st) ==
  IF ~ b0.ok THEN [eof |-> TRUE, r |-> -1, st |-> st]
  ELSE IF b0.b < 128 THEN [eof |-> FALSE, r |-> b0.b, st |-> b0.st]
  ELSE Gathered(Gather(<< b0.b >>, b0.st))

\* readRune.ReadRune: [eof, r, st]
ReadRune(st) ==
  IF st.peek >= 0
  THEN [eof |-> FALSE, r |-> st.peek, st |-> [st EXCEPT !.peek = -1]]
  ELSE RuneFrom(ReadByte(st), st)

\* readRune.UnreadRune after the rune r was read
UnreadRune(st, r) == [st EXCEPT !.peek = r]

\* ss.peek once the rune c was read: c is the rune r, and is unread
Peeked(c, r) ==
  IF c.eof THEN [is |-> FALSE, st |-> c.st]
  ELSE [is |-> c.r = r, st |-> UnreadRune(c.st, c.r)]

\* ss.peek: the next rune is r; the rune is read and unread.  [is, st]
Peek(st, r) == Peeked(ReadRune(st), r)

RECURSIVE SkipSpace(_)
\* SkipSpace once the rune c was read
Skipped1(c) ==
  IF c.eof THEN [err |-> FALSE, st |-> c.st]
  ELSE IF c.r = 13
  THEN \* before a \n or not, the \r is skipped; the peek reads a rune
       SkipSpace(Peek(c.st, NL).st)
  ELSE IF c.r = NL THEN [err |-> TRUE, st |-> c.st]
  ELSE IF ~ isSpace(c.r) THEN [err |-> FALSE, st |-> UnreadRune(c.st, c.r)]
  ELSE SkipSpace(c.st)

\* fmt's SkipSpace under Scanf: white space is skipped, also a \r before a
\* \n, and a newline is an error.  [err, st]
SkipSpace(st) == Skipped1(ReadRune(st))

RECURSIVE ScanNumber(_, _)
\* scanNumber once the rune c was read
ScanDigit(c, tok) ==
  IF c.eof THEN [tok |-> tok, st |-> c.st]
  ELSE IF c.r \in 48..57 THEN ScanNumber(c.st, Append(tok, c.r))
  ELSE [tok |-> tok, st |-> UnreadRune(c.st, c.r)]

\* the decimal digits scanNumber accepts: [tok, st]
ScanNumber(st, tok) == ScanDigit(ReadRune(st), tok)

\* scanInt once the number num was read after the sign: at least one digit
\* is required
Scanned(negative, num) ==
  IF Len(num.tok) = 0 THEN [err |-> TRUE, n |-> 0, rest |-> num.st.in]
  ELSE [err |-> FALSE,
        n |-> IF negative THEN 0 - AtoiDigits(num.tok, 0) ELSE AtoiDigits(num.tok, 0),
        rest |-> num.st.in]

\* scanInt once the first rune c after the white space was read: the end of
\* the input is an error, a sign is accepted
ScanSigned(c) ==
  IF c.eof THEN [err |-> TRUE, n |-> 0, rest |-> c.st.in]
  ELSE IF c.r \in {43, 45}
  THEN Scanned(c.r = 45, ScanNumber(c.st, << >>))
  ELSE Scanned(FALSE, ScanNumber(UnreadRune(c.st, c.r), << >>))

\* scanInt once it skipped the white space
ScanInt2(k) ==
  IF k.err THEN [err |-> TRUE, n |-> 0, rest |-> k.st.in]
  ELSE ScanSigned(ReadRune(k.st))

\* scanInt after doScanf skipped the white space: it skips it again
ScanInt1(k) ==
  IF k.err THEN [err |-> TRUE, n |-> 0, rest |-> k.st.in]
  ELSE ScanInt2(SkipSpace(k.st))

\* fmt.Scanf("%d", &choice) on the bytes waiting on stdin: [err, n, rest].
\* doScanf and scanInt each skip the white space; a sign is accepted, then at
\* least one digit is required.  The reader is dropped when Scanf returns,
\* so the rune read after the number and the bytes in pend are lost.  The
\* numbers typed in the model are far below the 64 bits of ParseInt
ScanfInt(s) == ScanInt1(SkipSpace(NewReader(s)))

\* main.go:168
ChoiceInvalid(choice, n) == choice < 0 \/ choice >= n

NoKey == << >>

\* the calls of getKey that can fail besides the Scanf: db.Query, and for
\* the row-th row rows.Scan and crypto.NewKeyFromReader; "none" when none
\* fails
NoFault == [call |-> "none", row |-> 0]
GetKeyFaults(n) ==
  { NoFault, [call |-> "Query", row |-> 0] }
    \cup { [call |-> c, row |-> k] : c \in {"Scan", "NewKey"}, k \in 1..n }

\* the end of getKey, main.go:162-171: keys were listed and sc is what Scanf
\* read
Choose(keys, sc) ==
  IF sc.err
  THEN [err |-> "failed to read choice", key |-> NoKey, listed |-> keys,
        prompted |-> TRUE, rest |-> sc.rest]
  ELSE IF ChoiceInvalid(sc.n, Len(keys))
  THEN [err |-> "invalid choice", key |-> NoKey, listed |-> keys,
        prompted |-> TRUE, rest |-> sc.rest]
  ELSE [err |-> "nil", key |-> keys[sc.n + 1].fingerprint, listed |-> keys,
        prompted |-> TRUE, rest |-> sc.rest]

\* getKey(fingerprint): rows is the table, typed what the user types at the
\* selection prompt, failing the call that fails.
\* [err, key, listed, prompted, rest]
getKey(fingerprint, rows, typed, failing) ==
  LET none == [err |-> "nil", key |-> NoKey, listed |-> << >>,
               prompted |-> FALSE, rest |-> typed]
  IN
  IF Len(fingerprint) > 0
  THEN LET found == RowsWhere(rows, ToLower(fingerprint))
       IN  IF failing.call = "Query"
           THEN [none EXCEPT !.err = "failed to query key"]
           ELSE IF Len(found) = 0 \/ failing.call = "Scan"
           THEN [none EXCEPT !.err = "failed to scan row"]
           ELSE IF failing.call = "NewKey"
           THEN [none EXCEPT !.err = "NewKeyFromReader error"]
           ELSE [none EXCEPT !.key = found[1].fingerprint]
  ELSE IF failing.call = "Query"
  THEN [none EXCEPT !.err = "failed to query keys"]
  ELSE IF failing.call = "Scan"
  THEN [none EXCEPT !.err = "failed to scan row",
                    !.listed = SubSeq(OrderDesc(rows), 1, failing.row - 1)]
  ELSE IF failing.call = "NewKey"
  THEN [none EXCEPT !.err = "failed to parse key",
                    !.listed = SubSeq(OrderDesc(rows), 1, failing.row - 1)]
  ELSE Choose(OrderDesc(rows), ScanfInt(typed))

(***************************************************************************)
(* Expiry, main.go:35, 230, 260                                            *)
(***************************************************************************)
\* time.Minute * 1, in seconds
ChallengeSolveTime == 60

\* time.Time.Before
Before(t, u) == t < u

\* main.go:260 with the test inverted
Expired_Inverted(exp, t) == Before(t, exp)

\* main.go:260: exp.Before(time.Now())
Expired_Never(exp, t) == FALSE
Expired(exp, t) == Before(exp, t)

\* main.go:230 with no solve window added
Deadline_NoWindow(t) == t

\* main.go:230: time.Now().Add(ChallengeSolveTime)
Deadline(t) == t + ChallengeSolveTime

\* main.go:263 without the trimming
Matches_NoTrim(input, secret) == ConstantTimeCompare(input, secret) = 1

\* main.go:263
Matches(input, secret) == ConstantTimeCompare(TrimSpace(input), secret) = 1

(***************************************************************************)
(* Inputs of the model                                                     *)
(***************************************************************************)
LengthPrefixes == { << >>, << 43 >>, << 45 >>, << 48 >> }
LengthSuffixes == { << >>, << 120 >>, << 32 >> }

\* every way the model writes a length argument: an optional sign or leading
\* zero, a number, an optional trailing non-digit; and arguments with no digit
AllLengthArgs ==
  { p \o Digits(n) \o q : p \in LengthPrefixes, n \in 0..MaxLengthArg, q \in LengthSuffixes }
    \cup { << >>, << 120 >>, << 45 >>, << 43 >> }

\* the length arguments of the runs that go through the whole command:
\* "1" "2" "0" "3" "-1" "x" "513" "1024"
CmdLengthArgs ==
  { << 49 >>, << 50 >>, << 48 >>, << 51 >>, << 45, 49 >>, << 120 >>,
    << 53, 49, 51 >>, << 49, 48, 50, 52 >> }

\* the key-id arguments: "A1", "ff" and the empty string
FpArgs == { << 65, 49 >>, << 102, 102 >>, << >> }

\* the arguments of the runs of the command: none, a length, a length and a
\* key-id (the length "2" is run without a key-id only)
CmdArgs ==
  { << >> } \cup { << l >> : l \in CmdLengthArgs }
    \cup { << l, f >> : l \in CmdLengthArgs \ { << 50 >> }, f \in FpArgs }

\* what the user types at "select a key: ": "0\n" "1\n" "2\n" "-1\n" "x\n"
\* "1 a\n" and end of input; "\v1\n", "\r\n", a no-break space before "2\n",
\* and the first byte of an encoding before "1\n"
ChoiceLines ==
  { << 48, NL >>, << 49, NL >>, << 50, NL >>, << 45, 49, NL >>, << 120, NL >>,
    << 49, 32, 97, NL >>, << >>,
    << 11, 49, NL >>, << 13, NL >>, << 194, 160, 50, NL >>, << 194, 49, NL >> }

\* the random sources of the runs of the command, and of direct calls
CmdSeeds == {0, 89}
CmdStrides == {0}
BenchStrides == {0, 1, 7}
BenchSeeds(length) == IF length <= MaxGenLen THEN 0..255 ELSE {0, 89, 90, 255}
\* the random sources of the calls of createChallenges after the first
LoopStrides == {0}
LoopSeeds == {0, 255}

\* the lengths createChallenges is called with, part_001:125-147
BenchLengths == {16, 32, 64, 128, 256, 512}

\* the lengths generateChallenge is called with by itself: every small
\* length, the benchmark lengths, and lengths the challenge command would
\* refuse
GenLengths == (-2..MaxGenLen) \cup {32, 64, 128, 256, 512, 513, 1024}

\* bytes of candidate lines: a : and the space
InputBytes == {97, 58, 32}

RECURSIVE SeqsUpTo(_, _)
SeqsUpTo(S, n) ==
  IF n = 0 THEN { << >> }
  ELSE LET shorter == SeqsUpTo(S, n - 1)
       IN  shorter \cup { Append(t, x) : t \in { u \in shorter : Len(u) = n - 1 }, x \in S }

Contents == SeqsUpTo(InputBytes, MaxLine)

\* what reader.ReadString('\n') returns: a line with its newline and no
\* error, or the bytes before the end of input with an error
Reads ==
  { [err |-> FALSE, data |-> Append(c, NL)] : c \in Contents }
    \cup { [err |-> TRUE, data |-> c] : c \in { << >>, << 97 >>, << 58 >> } }

TickSteps == {30, 60}

\* the arguments of runs from main on, os.Args[1:]: no command, help, import
\* with no key file, import and import-key with the key file "-", an unknown
\* name xx, and challenge with no length, the length 3 and the length 1 with
\* the key-id ff
MainArgs ==
  { << >>,
    << << 104, 101, 108, 112 >> >>,
    << << 105, 109, 112, 111, 114, 116 >> >>,
    << << 105, 109, 112, 111, 114, 116 >>, << 45 >> >>,
    << << 105, 109, 112, 111, 114, 116, 45, 107, 101, 121 >>, << 45 >> >>,
    << << 120, 120 >> >>,
    << << 99, 104, 97, 108, 108, 101, 110, 103, 101 >> >>,
    << << 99, 104, 97, 108, 108, 101, 110, 103, 101 >>, << 51 >> >>,
    << << 99, 104, 97, 108, 108, 101, 110, 103, 101 >>, << 49 >>, << 102, 102 >> >> }

\* the runs of `pgp-mfa import <key-file>`
ImportArgs == { a \in MainArgs : Len(a) = 2 /\ a[1] = << 105, 109, 112, 111, 114, 116 >> }

\* a key with no expiration time
NeverExpires == -1

\* what the key file holds: nothing that can be opened ("missing"), bytes
\* that are no key ("garbage"), a key whose public key cannot be serialized
\* ("nopub"), or a key: its fingerprint, whether it is a private key, and
\* the time it expires at
NoFile == [kind |-> "none", fingerprint |-> << >>, private |-> FALSE, expires |-> NeverExpires]

KeyFiles ==
  { [kind |-> k, fingerprint |-> << >>, private |-> FALSE, expires |-> NeverExpires] :
      k \in {"missing", "garbage"} }
    \cup { [kind |-> "nopub", fingerprint |-> FpA, private |-> FALSE, expires |-> NeverExpires] }
    \cup { [kind |-> "key", fingerprint |-> f, private |-> p, expires |-> e] :
             f \in {FpA, FpB}, p \in BOOLEAN, e \in {NeverExpires, 45} }

(***************************************************************************)
(* State                                                                   *)
(***************************************************************************)
VARIABLES
  pc,             \* position of the process
  args,           \* arguments after the command name
  db,             \* rows of table keys
  length,         \* main.go:206
  selectedKey,    \* main.go:217
  stdinBuf,       \* bytes typed on stdin and not read yet
  entropy,        \* what rand.Read put into the buffer
  challengeBytes, \* main.go:222
  armored,        \* main.go:226
  exp,            \* main.go:230
  now,            \* the clock
  tempFile,       \* "none", "present" or "removed"
  fileData,       \* what was written to the temp file
  stdout,         \* what was printed
  input,          \* main.go:252, the last line read
  outcome,        \* outcome of the last evaluated submission
  attempts,       \* lines read by the loop
  steps,          \* the steps the run has attempted
  result,         \* what challenge returned
  typed,          \* what was typed at the prompt of getKey
  running,        \* the function the process runs
  keyFile,        \* what the key file named on the command line holds
  imports,        \* the runs of importKey so far
  stderr,         \* what was logged
  status,         \* "running", or the exit status of the process
  benchN,         \* b.N of the benchmark run
  benchI,         \* the i of the loop of createChallenges
  failed,         \* b.Fail() was called
  faults          \* the calls that returned an error to the command

vars == << pc, args, db, length, selectedKey, stdinBuf, entropy, challengeBytes,
           armored, exp, now, tempFile, fileData, stdout, input,
           outcome, attempts, steps, result, typed, running, keyFile,
           imports, stderr, status, benchN, benchI, failed, faults >>

NoTime == -1
NoArmor == [recipient |-> NoKey, sealed |-> << >>]

Say(kind, data) == [kind |-> kind, data |-> data]

InitRest ==
  /\ selectedKey = NoKey
  /\ stdinBuf = << >>
  /\ entropy = << >>
  /\ challengeBytes = << >>
  /\ armored = NoArmor
  /\ exp = NoTime
  /\ now = 0
  /\ tempFile = "none"
  /\ fileData = << >>
  /\ stdout = << >>
  /\ input = << >>
  /\ outcome = "None"
  /\ attempts = 0
  /\ steps = {}
  /\ result = "running"
  /\ typed = << >>
  /\ faults = {}
  /\ imports = 0
  /\ stderr = << >>
  /\ status = "running"
  /\ benchI = 0
  /\ failed = FALSE

\* a run of `pgp-mfa challenge args...` over some key table, with the
\* arguments of a whole run or with any length argument alone; or a direct
\* benchmark run of the generator or of the encryption, from the init of the
\* test file on (part_001:33-41, 115-123, 149-204), with b.N calls; or a call of
\* generateChallenge(length) by itself, with any length;
\* or a run of `pgp-mfa args...` from main on
Init ==
  /\ InitRest
  /\ \/ /\ pc = "start"
        /\ running = "challenge"
        /\ args \in CmdArgs
        /\ db \in Stores
        /\ length = 0
        /\ keyFile = NoFile
        /\ benchN = 0
     \/ /\ pc = "start"
        /\ running = "challenge"
        /\ args \in { << l >> : l \in AllLengthArgs }
        /\ db = << >>
        /\ length = 0
        /\ keyFile = NoFile
        /\ benchN = 0
     \/ /\ pc = "testinit"
        /\ running \in {"createChallenges", "benchmarkChallengeEncryption"}
        /\ args = << >>
        /\ db = << >>
        /\ length \in BenchLengths
        /\ keyFile = NoFile
        /\ benchN \in 1..MaxBenchN
     \/ /\ pc = "call"
        /\ running = "generateChallenge"
        /\ args = << >>
        /\ db = << >>
        /\ length \in GenLengths
        /\ keyFile = NoFile
        /\ benchN = 0
     \/ /\ pc = "main"
        /\ running = "main"
        /\ args \in MainArgs
        /\ db = << >>
        /\ length = 0
        /\ keyFile \in (IF args \in ImportArgs THEN KeyFiles ELSE { NoFile })
        /\ benchN = 0

(***************************************************************************)
(* The challenge command, main.go:202-271                                  *)
(***************************************************************************)
\* challenge returns err; the deferred calls run (main.go:235, 244-246):
\* os.Remove, whose error is dropped, and then Close.  A removal that fails
\* leaves the file
Return(err) ==
  /\ pc' = "done"
  /\ result' = err
  /\ IF tempFile = "present"
     THEN tempFile' \in {"removed", "present"}
     ELSE tempFile' = tempFile

\* main.go:203-212
Validate ==
  /\ pc = "start"
  /\ IF Len(args) < 1
     THEN /\ Return("usage")
          /\ UNCHANGED << length, faults >>
     ELSE /\ length' = ParseLength(args[1])
          /\ faults' = IF Atoi(args[1]).err THEN faults \cup {"parse length"}
                        ELSE faults
          /\ IF ValidateLength(length') # "nil"
             THEN Return(ValidateLength(length'))
             ELSE /\ pc' = "getKey"
                  /\ UNCHANGED << result, tempFile >>
  /\ UNCHANGED << args, db, selectedKey, stdinBuf, entropy, challengeBytes, armored,
                  exp, now, fileData, stdout, input, outcome, attempts,
                  steps, typed, running,
                  keyFile, imports, stderr, status,
                  benchN, benchI, failed >>

\* main.go:217-220 once getKey returned r: what getKey printed and read, and
\* the return of its error
GotKey(line, failing, r) ==
  /\ steps' = steps \cup {"getKey"}
  /\ stdout' = stdout
                 \o [i \in 1..Len(r.listed) |->
                       Say("key", << i - 1 >> \o r.listed[i].fingerprint)]
                 \o (IF r.prompted THEN << Say("select", << >>) >> ELSE << >>)
  /\ stdinBuf' = r.rest
  /\ selectedKey' = r.key
  /\ typed' = line
  /\ faults' = faults
                 \cup (IF r.err # "nil" THEN {"key lookup"} ELSE {})
                 \cup (IF failing = NoFault THEN {} ELSE {failing.call})
  /\ IF r.err # "nil"
     THEN Return(r.err)
     ELSE /\ pc' = "generate"
          /\ UNCHANGED << result, tempFile >>

\* main.go:213-220
GetKey ==
  /\ pc = "getKey"
  /\ LET fingerprint == IF Len(args) > 1 THEN args[2] ELSE << >>
         found == IF Len(fingerprint) > 0
                  THEN Len(RowsWhere(db, ToLower(fingerprint))) ELSE Len(db)
     IN  \E line \in (IF Len(fingerprint) > 0 THEN { << >> } ELSE ChoiceLines),
            failing \in GetKeyFaults(found) :
           GotKey(line, failing, getKey(fingerprint, db, line, failing))
  /\ UNCHANGED << args, db, length, entropy, challengeBytes, armored, exp, now,
                  fileData, input, outcome, attempts, running,
                  keyFile, imports, stderr, status,
                  benchN, benchI, failed >>

\* main.go:222-225
Generate ==
  /\ pc = "generate"
  /\ \E seed \in CmdSeeds, stride \in CmdStrides, rngErr \in BOOLEAN :
       LET rnd == RandBuffer(seed, stride, length)
           r   == generateChallenge(length, rnd, rngErr)
       IN  /\ steps' = steps \cup {"generate"}
           /\ entropy' = IF rngErr THEN << >> ELSE rnd
           /\ challengeBytes' = r.bytes
           /\ faults' = IF r.status # "nil" THEN faults \cup {"generate"}
                         ELSE faults
           /\ IF r.status # "nil"
              THEN Return(IF r.status = "err" THEN "failed to generate challenge"
                          ELSE "panic")
              ELSE /\ pc' = "encrypt"
                   /\ UNCHANGED << result, tempFile >>
  /\ UNCHANGED << args, db, length, selectedKey, stdinBuf, armored, exp, now,
                  fileData, stdout, input, outcome, attempts, typed, running,
                  keyFile, imports, stderr, status,
                  benchN, benchI, failed >>

\* generateChallenge(length), main.go:174-184, called by itself: result is
\* the error it returned, or "panic"
CallGenerate ==
  /\ pc = "call"
  /\ \E seed \in BenchSeeds(length), stride \in BenchStrides, rngErr \in BOOLEAN :
       LET rnd == RandBuffer(seed, stride, length)
           r   == generateChallenge(length, rnd, rngErr)
       IN  /\ entropy' = IF rngErr THEN << >> ELSE rnd
           /\ challengeBytes' = r.bytes
           /\ result' = IF r.status = "err" THEN "failed to generate challenge"
                        ELSE r.status
  /\ steps' = {"call"}
  /\ pc' = "done"
  /\ UNCHANGED << args, db, length, selectedKey, stdinBuf, armored, exp, now,
                  tempFile, fileData, stdout, input, outcome, attempts, typed,
                  faults, running, keyFile, imports, stderr, status,
                  benchN, benchI, failed >>

\* the key generations of the init of the test file, part_001:166-203;
\* "none" when none of them fails
KeyGenCalls == << "ed25519", "rsa3072", "rsa4092" >>

\* what init logs for the keys from the k-th on, failing the one that fails
RECURSIVE KeyGenLog(_, _)
KeyGenLog(k, failing) ==
  IF k > Len(KeyGenCalls) THEN << >>
  ELSE IF KeyGenCalls[k] = failing
  THEN << Say("log", << "preparing key", KeyGenCalls[k] >>),
          Say("log", << "failed to generate key", KeyGenCalls[k] >>) >>
  ELSE << Say("log", << "preparing key", KeyGenCalls[k] >>),
          Say("log", << "key fingerprint", KeyGenCalls[k] >>) >>
       \o KeyGenLog(k + 1, failing)

\* init of the test file, part_001:149-204: [fatal, log]
testInit(failing) ==
  [fatal |-> \E k \in 1..Len(KeyGenCalls) : KeyGenCalls[k] = failing,
   log   |-> << Say("log", << "preparing challenges bytes" >>) >>
             \o KeyGenLog(1, failing)]

\* part_001:149-204: init runs before the benchmarks; a key generation that
\* fails ends the process by log.Fatalf
TestInit ==
  /\ pc = "testinit"
  /\ \E failing \in {"none"} \cup { KeyGenCalls[k] : k \in 1..Len(KeyGenCalls) } :
       LET r == testInit(failing)
       IN  /\ stderr' = stderr \o r.log
           /\ IF r.fatal
              THEN /\ pc' = "exit"
                   /\ status' = "exit 1"
              ELSE /\ pc' = IF running = "createChallenges" THEN "bench"
                            ELSE "benchEncryption"
                   /\ UNCHANGED status
  /\ UNCHANGED << args, db, length, selectedKey, stdinBuf, entropy, challengeBytes,
                  armored, exp, now, tempFile, fileData, stdout, input, outcome,
                  attempts, steps, result, typed, faults, running, keyFile,
                  imports, benchN, benchI, failed >>

\* createChallenges, part_001:115-123: one iteration of the loop over b.N, a
\* call of generateChallenge(length) outside the challenge command; result is
\* the error the call returned, or "panic".  An error is logged and fails the
\* benchmark, and the loop goes on; a panic ends it.  b.N is at least 1
CreateChallenges ==
  /\ pc = "bench"
  /\ \E seed \in (IF benchI = 0 THEN BenchSeeds(length) ELSE LoopSeeds),
        stride \in (IF benchI = 0 THEN BenchStrides ELSE LoopStrides),
        rngErr \in BOOLEAN :
       LET rnd == RandBuffer(seed, stride, length)
           r   == generateChallenge(length, rnd, rngErr)
       IN  /\ entropy' = IF rngErr THEN << >> ELSE rnd
           /\ challengeBytes' = r.bytes
           /\ result' = IF r.status = "err" THEN "failed to generate challenge"
                        ELSE r.status
           /\ stderr' = IF r.status = "err"
                        THEN Append(stderr, Say("log", << "failed to generate challenge" >>))
                        ELSE stderr
           /\ failed' = (failed \/ r.status = "err")
           /\ pc' = IF r.status = "panic" \/ benchI + 1 >= benchN
                    THEN "done" ELSE "bench"
  /\ benchI' = benchI + 1
  /\ steps' = {"bench"}
  /\ UNCHANGED << args, db, length, selectedKey, stdinBuf, armored, exp, now,
                  tempFile, fileData, stdout, input, outcome, attempts, typed,
                  faults, running,
                  keyFile, imports, status, benchN >>

\* the calls of the provider that encryptChallenge makes, main.go:187, 191
\* and 195; "none" when none of them fails
EncryptCalls == { "none", "PGP", "Encrypt", "Armor" }

\* encryptChallenge, had it armored the challenge itself, sealed to no key
encryptChallenge_Plain(key, challenge, failing) ==
  IF failing = "PGP"
  THEN [err |-> "failed to create pgp context", armored |-> NoArmor]
  ELSE IF failing = "Encrypt"
  THEN [err |-> "failed to encrypt challenge", armored |-> NoArmor]
  ELSE IF failing = "Armor"
  THEN [err |-> "failed to armor challenge", armored |-> NoArmor]
  ELSE [err |-> "nil", armored |-> [recipient |-> NoKey, sealed |-> challenge]]

\* encryptChallenge, had it gone on after a failure of the armoring
encryptChallenge_IgnoreArmor(key, challenge, failing) ==
  IF failing = "PGP"
  THEN [err |-> "failed to create pgp context", armored |-> NoArmor]
  ELSE IF failing = "Encrypt"
  THEN [err |-> "failed to encrypt challenge", armored |-> NoArmor]
  ELSE IF failing = "Armor"
  THEN [err |-> "nil", armored |-> NoArmor]
  ELSE [err |-> "nil", armored |-> [recipient |-> key, sealed |-> challenge]]

\* encryptChallenge, main.go:186-200: the provider may fail at each of its
\* three calls; the armored message is the challenge sealed to the key
encryptChallenge(key, challenge, failing) ==
  IF failing = "PGP"
  THEN [err |-> "failed to create pgp context", armored |-> NoArmor]
  ELSE IF failing = "Encrypt"
  THEN [err |-> "failed to encrypt challenge", armored |-> NoArmor]
  ELSE IF failing = "Armor"
  THEN [err |-> "failed to armor challenge", armored |-> NoArmor]
  ELSE [err |-> "nil", armored |-> [recipient |-> key, sealed |-> challenge]]

\* benchmarkChallengeEncryption, part_001:33-41: one iteration of the loop
\* over b.N, a call of encryptChallenge(key, chalMap[length]) with one of the
\* keys of init.  chalMap holds the slices as they were when the variables
\* were set, of length 0, and the copy of init into them copies nothing: the
\* challenge is empty for every length.  Only the error is kept: it fails
\* the benchmark, without a log line, and the loop goes on
BenchmarkChallengeEncryption ==
  /\ pc = "benchEncryption"
  /\ \E key \in { KeyGenCalls[k] : k \in 1..Len(KeyGenCalls) },
        failing \in EncryptCalls :
       LET r == encryptChallenge(key, << >>, failing)
       IN  /\ result' = r.err
           /\ failed' = (failed \/ r.err # "nil")
  /\ pc' = IF benchI + 1 >= benchN THEN "done" ELSE "benchEncryption"
  /\ benchI' = benchI + 1
  /\ steps' = {"benchEncryption"}
  /\ UNCHANGED << args, db, length, selectedKey, stdinBuf, entropy, challengeBytes,
                  armored, exp, now, tempFile, fileData, stdout, input, outcome,
                  attempts, typed, faults, running, keyFile, imports, stderr,
                  status, benchN >>

\* main.go:226-229
Encrypt ==
  /\ pc = "encrypt"
  /\ \E failing \in EncryptCalls :
       LET r == encryptChallenge(selectedKey, challengeBytes, failing)
       IN  /\ steps' = steps \cup {"encrypt"}
           /\ armored' = r.armored
           /\ faults' = IF failing # "none" THEN faults \cup {failing} ELSE faults
           /\ IF r.err # "nil"
              THEN Return(r.err)
              ELSE /\ pc' = "open"
                   /\ UNCHANGED << result, tempFile >>
  /\ UNCHANGED << args, db, length, selectedKey, stdinBuf, entropy, challengeBytes,
                  exp, now, fileData, stdout, input, outcome, attempts, typed, running,
                  keyFile, imports, stderr, status,
                  benchN, benchI, failed >>

\* main.go:230-235
OpenSession ==
  /\ pc = "open"
  /\ exp' = Deadline(now)
  /\ steps' = steps \cup {"createTemp"}
  /\ \E created \in BOOLEAN :
       IF created
       THEN /\ tempFile' = "present"
            /\ pc' = "emit"
            /\ UNCHANGED << result, faults >>
       ELSE /\ pc' = "done"
            /\ result' = "failed to create temp file"
            /\ faults' = faults \cup {"create temp"}
            /\ UNCHANGED tempFile
  /\ UNCHANGED << args, db, length, selectedKey, stdinBuf, entropy, challengeBytes,
                  armored, now, fileData, stdout, input, outcome,
                  attempts, typed, running,
                  keyFile, imports, stderr, status,
                  benchN, benchI, failed >>

\* main.go:237-246: the MultiWriter writes the temp file first and stops at
\* the first error; the error is only used to decide on the "solve with" line
Emit ==
  /\ pc = "emit"
  /\ \E w \in {"ok", "fileErr", "stdoutErr"} :
       /\ fileData' = IF w = "fileErr" THEN << >> ELSE << armored >>
       /\ stdout' = stdout
            \o (IF w = "ok" THEN << Say("armored", << armored >>), Say("solve", << >>) >>
                ELSE << >>)
            \o << Say("expires", << exp >>) >>
       /\ faults' = IF w = "ok" THEN faults ELSE faults \cup {"write"}
  /\ pc' = "loop"
  /\ UNCHANGED << args, db, length, selectedKey, stdinBuf, entropy, challengeBytes,
                  armored, exp, now, tempFile, input, outcome, attempts,
                  steps, result, typed, running,
                  keyFile, imports, stderr, status,
                  benchN, benchI, failed >>

\* main.go:253, the read returned an error
ReadFails_OnlyEmpty(rd) == rd.err /\ Len(rd.data) = 0
ReadFails(rd) == rd.err

\* main.go:256, the line is passed over without being evaluated
Skipped_Blank(line) == Len(TrimSpace(line)) = 0
Skipped(line) == Len(line) = 0

\* main.go:250-269, one iteration of the loop; the bound on the attempts
\* bounds the submissions made while the challenge has not expired
Submit ==
  /\ pc = "loop"
  /\ attempts < MaxAttempts \/ Expired(exp, now)
  /\ \E rd \in (IF Len(stdinBuf) > 0 THEN { [err |-> FALSE, data |-> stdinBuf] }
                ELSE Reads) :
       /\ steps' = steps \cup {"read"}
       /\ stdinBuf' = << >>
       /\ input' = rd.data
       /\ faults' = IF ReadFails(rd) THEN faults \cup {"read"} ELSE faults
       /\ IF ReadFails(rd)
          THEN /\ Return("failed to read input")
               /\ stdout' = Append(stdout, Say("prompt", << >>))
               /\ UNCHANGED << outcome, attempts >>
          ELSE IF Skipped(rd.data)
          THEN /\ stdout' = Append(stdout, Say("prompt", << >>))
               /\ UNCHANGED << pc, result, tempFile, outcome, attempts >>
          ELSE /\ attempts' = attempts + 1
               /\ IF Expired(exp, now)
                  THEN /\ Return("challenge has expired")
                       /\ outcome' = "Expired"
                       /\ stdout' = Append(stdout, Say("prompt", << >>))
                  ELSE IF Matches(rd.data, challengeBytes)
                  THEN /\ Return("nil")
                       /\ outcome' = "Matched"
                       /\ stdout' = stdout \o << Say("prompt", << >>), Say("solved", << >>) >>
                  ELSE /\ outcome' = "Mismatched"
                       /\ stdout' = stdout \o << Say("prompt", << >>), Say("incorrect", << >>) >>
                       /\ UNCHANGED << pc, result, tempFile >>
  /\ UNCHANGED << args, db, length, selectedKey, entropy, challengeBytes, armored,
                  exp, now, fileData, typed, running,
                  keyFile, imports, stderr, status,
                  benchN, benchI, failed >>

\* the clock advances; the command reads it at main.go:230 and main.go:260
\* only, so it is let advance before each of the two readings. A session is
\* opened early enough for the clock to pass its deadline before MaxTime
Tick ==
  /\ pc \in {"open", "loop"}
  /\ \E d \in TickSteps :
       /\ now + d <= MaxTime
       /\ pc = "open" => \E later \in TickSteps : Deadline(now + d) + later <= MaxTime
       /\ now' = now + d
  /\ UNCHANGED << pc, args, db, length, selectedKey, stdinBuf, entropy,
                  challengeBytes, armored, exp, tempFile, fileData, stdout, input,
                  outcome, attempts, steps, result, typed, faults, running,
                  keyFile, imports, stderr, status,
                  benchN, benchI, failed >>

(***************************************************************************)
(* The dispatch of main, main.go:273-291                                   *)
(***************************************************************************)
\* the command names of main.go:28-32: help, import, challenge
CmdHelp == << 104, 101, 108, 112 >>
CmdImport == << 105, 109, 112, 111, 114, 116 >>
CmdChallenge == << 99, 104, 97, 108, 108, 101, 110, 103, 101 >>

\* the command names the README documents, README.md:9-11: import-key and
\* challenge
ReadmeImportKey == << 105, 109, 112, 111, 114, 116, 45, 107, 101, 121 >>
ReadmeChallenge == << 99, 104, 97, 108, 108, 101, 110, 103, 101 >>

\* the map commands, main.go:28-32, from the name to the function
commands ==
  (CmdHelp :> "help") @@ (CmdImport :> "importKey") @@ (CmdChallenge :> "challenge")

\* the four lines help prints, main.go:68-74
HelpLines == << Say("help", << >>) >>

\* main up to the call of the command, main.go:273-287: args is os.Args[1:];
\* the function found under the command name is called with the arguments
\* after the name, and a name that is not in the map ends the process with
\* status 1
Main ==
  /\ pc = "main"
  /\ IF Len(args) < 1
     THEN /\ stdout' = Append(stdout, Say("usage", << >>))
          /\ pc' = "exit"
          /\ status' = "exit 1"
          /\ UNCHANGED << args, running, result >>
     ELSE IF args[1] \notin DOMAIN commands
     THEN /\ stdout' = Append(stdout, Say("unknown command", args[1])) \o HelpLines
          /\ pc' = "exit"
          /\ status' = "exit 1"
          /\ UNCHANGED << args, running, result >>
     ELSE /\ args' = Tail(args)
          /\ running' = commands[args[1]]
          /\ UNCHANGED status
          /\ IF commands[args[1]] = "help"
             THEN /\ stdout' = stdout \o HelpLines
                  /\ pc' = "done"
                  /\ result' = "nil"
             ELSE /\ pc' = IF commands[args[1]] = "importKey" THEN "import" ELSE "start"
                  /\ UNCHANGED << stdout, result >>
  /\ UNCHANGED << db, length, selectedKey, stdinBuf, entropy, challengeBytes,
                  armored, exp, now, tempFile, fileData, input, outcome,
                  attempts, steps, typed, faults,
                  keyFile, imports, stderr,
                  benchN, benchI, failed >>

(***************************************************************************)
(* The import command, main.go:83-119                                      *)
(***************************************************************************)
\* key.IsExpired(time.Now().Unix())
IsExpired(key, t) == key.expires # NeverExpires /\ key.expires < t

\* INSERT INTO keys over a table whose primary key is the fingerprint,
\* main.go:58-62: [err, db]
Insert_NoPrimaryKey(rows, fp, t) ==
  [err |-> FALSE, db |-> Append(rows, [fingerprint |-> fp, created_at |-> t])]
Insert(rows, fp, t) ==
  IF \E k \in 1..Len(rows) : rows[k].fingerprint = fp
  THEN [err |-> TRUE, db |-> rows]
  ELSE [err |-> FALSE, db |-> Append(rows, [fingerprint |-> fp, created_at |-> t])]

\* importKey(args) over the key file and the table; t is the clock reading
\* of the expiry test (main.go:105) and u the later one stored as created_at
\* (main.go:112).  [err, db, out, log]: out is printed, log is logged; the
\* err "exit 1" stands for the os.Exit(1) of main.go:86
importKey(a, file, rows, t, u) ==
  IF Len(a) # 1
  THEN [err |-> "exit 1", db |-> rows, out |-> << Say("usage import", << >>) >>,
        log |-> << >>]
  ELSE IF file.kind = "missing"
  THEN [err |-> "ErrOpenFailed", db |-> rows, out |-> << >>, log |-> << >>]
  ELSE IF file.kind = "garbage"
  THEN [err |-> "ErrFailedRead", db |-> rows, out |-> << >>, log |-> << >>]
  ELSE IF file.kind = "nopub"
  THEN [err |-> "ErrPubKeyFail", db |-> rows, out |-> << >>, log |-> << >>]
  ELSE IF file.private
  THEN [err |-> "ErrKeyPriv", db |-> rows, out |-> << >>, log |-> << >>]
  ELSE IF IsExpired(file, t)
  THEN [err |-> "ErrKeyExp", db |-> rows, out |-> << >>, log |-> << >>]
  ELSE LET ins == Insert(rows, file.fingerprint, u)
       IN  IF ins.err
           THEN [err |-> "key import error", db |-> ins.db, out |-> << >>,
                 log |-> << Say("importing key", file.fingerprint) >>]
           ELSE [err |-> "nil", db |-> ins.db, out |-> << >>,
                 log |-> << Say("importing key", file.fingerprint),
                            Say("key imported", << >>) >>]

\* main.go:83-119, one run of importKey; the clock may advance between its
\* two readings
ImportKey ==
  /\ pc = "import"
  /\ \E d \in {0} \cup TickSteps :
       /\ now + d <= MaxTime
       /\ now' = now + d
       /\ LET r == importKey(args, keyFile, db, now, now + d)
          IN  /\ db' = r.db
              /\ stdout' = stdout \o r.out
              /\ stderr' = stderr \o r.log
              /\ IF r.err = "exit 1"
                 THEN /\ pc' = "exit"
                      /\ status' = "exit 1"
                      /\ UNCHANGED result
                 ELSE /\ pc' = "done"
                      /\ result' = r.err
                      /\ UNCHANGED status
  /\ imports' = imports + 1
  /\ UNCHANGED << args, length, selectedKey, stdinBuf, entropy, challengeBytes,
                  armored, exp, tempFile, fileData, input, outcome,
                  attempts, steps, typed, running, keyFile, faults,
                  benchN, benchI, failed >>

\* main.go:287-291: the command has returned to main; an error is logged by
\* log.Fatalf, which ends the process with status 1
Exit ==
  /\ pc = "done"
  /\ running \in {"help", "importKey", "challenge"}
  /\ pc' = "exit"
  /\ IF result # "nil"
     THEN /\ stderr' = Append(stderr, Say("error", << result >>))
          /\ status' = "exit 1"
     ELSE /\ status' = "exit 0"
          /\ UNCHANGED stderr
  /\ UNCHANGED << args, db, length, selectedKey, stdinBuf, entropy, challengeBytes,
                  armored, exp, now, tempFile, fileData, stdout, input, outcome,
                  attempts, steps, result, typed, running, keyFile, imports,
                  faults,
                  benchN, benchI, failed >>

\* the import command is run again, later, over the table the runs before
\* it left, main.go:273-281
StartImport ==
  /\ pc = "exit"
  /\ running = "importKey"
  /\ imports < MaxImports
  /\ \E d \in TickSteps :
       /\ now + d <= MaxTime
       /\ now' = now + d
  /\ \E a \in ImportArgs, f \in KeyFiles :
       /\ args' = a
       /\ keyFile' = f
  /\ pc' = "main"
  /\ running' = "main"
  /\ result' = "running"
  /\ status' = "running"
  /\ stdout' = << >>
  /\ stderr' = << >>
  /\ UNCHANGED << db, length, selectedKey, stdinBuf, entropy, challengeBytes,
                  armored, exp, tempFile, fileData, input, outcome,
                  attempts, steps, typed, imports, faults,
                  benchN, benchI, failed >>

Next ==
  \/ Main
  \/ ImportKey
  \/ StartImport
  \/ Exit
  \/ Validate
  \/ GetKey
  \/ Generate
  \/ Encrypt
  \/ OpenSession
  \/ Emit
  \/ Submit
  \/ Tick
  \/ TestInit
  \/ CreateChallenges
  \/ BenchmarkChallengeEncryption
  \/ CallGenerate

Spec == Init /\ [][Next]_vars

\* runs of the challenge command with the length 1 over two stored keys,
\* under a clock that keeps advancing and an input that keeps delivering a
\* line or a read error
LiveArgs == { << << 49 >> >>, << << 49 >>, << 65, 49 >> >> }

InitLive ==
  /\ InitRest
  /\ pc = "start"
  /\ running = "challenge"
  /\ args \in LiveArgs
  /\ db \in { s \in Stores : Len(s) = 2 }
  /\ keyFile = NoFile
  /\ length = 0
  /\ benchN = 0

NextLive ==
  \/ Validate
  \/ GetKey
  \/ Generate
  \/ Encrypt
  \/ OpenSession
  \/ Emit
  \/ Submit
  \/ Tick
  \/ Exit

SpecLive == InitLive /\ [][NextLive]_vars /\ WF_vars(Tick) /\ WF_vars(Submit)

(***************************************************************************)
(* Properties                                                              *)
(***************************************************************************)
\* the lengths that are powers of two between 1 and 512
ValidLengths == {1, 2, 4, 8, 16, 32, 64, 128, 256, 512}

\* the argument writes the number n in decimal: "16", "+16" or "016"
Writes(arg, n) == arg \in { Digits(n), << 43 >> \o Digits(n), << 48 >> \o Digits(n) }

ValidArg(arg) == \E n \in ValidLengths : Writes(arg, n)

\* the argument writes a number of 1..512 that is no power of two
NonPowArg(arg) == \E n \in (1..512) \ ValidLengths : Writes(arg, n)

LengthErrors == {"ErrChallengeLength", "ErrChallengePow"}

\* the state is one of a run of the challenge command
CommandRun == running = "challenge"

\* the command has returned to main
Returned == pc \in {"done", "exit"}

\* the state is one right after a call of the generator outside the
\* challenge command: by itself, or in the loop of createChallenges
GeneratorCalled ==
  \/ steps = {"call"}
  \/ pc \in {"bench", "done"} /\ steps = {"bench"}

\* the step evaluates a submission: a line was read and the loop went on to
\* the expiry check
Evaluates == pc = "loop" /\ attempts' = attempts + 1

NothingDone ==
  /\ steps = {}
  /\ selectedKey = NoKey
  /\ entropy = << >>
  /\ challengeBytes = << >>
  /\ armored = NoArmor
  /\ exp = NoTime
  /\ tempFile = "none"
  /\ fileData = << >>
  /\ stdout = << >>
  /\ input = << >>
  /\ attempts = 0

Incorrects == Len(SelectSeq(stdout, LAMBDA m : m.kind = "incorrect"))

\* C1: the command succeeds only on a submission whose trimmed candidate
\* equals the secret and which is evaluated while the challenge is not
\* expired, that is at a time before expiresAt.
C1_SuccessOnlyUnexpired ==
  (CommandRun /\ Returned /\ result = "nil")
    => (TrimSpace(input) = challengeBytes /\ now < exp)

\* C2: every submission evaluated at a time now >= expiresAt, the instant
\* now = expiresAt included, yields Expired.
C2_ExpiredFromDeadlineOn ==
  [][(Evaluates /\ now >= exp) => outcome' = "Expired"]_vars

\* C3: a submission evaluated after the deadline yields Expired and ends the
\* command with the expiry error, whatever the candidate is, so a correct
\* late candidate is never Matched; and once the outcome is Matched or
\* Expired no further line is read or evaluated and nothing the loop produced
\* changes.
C3_LateIsExpiredAndTerminal ==
  [][ /\ (Evaluates /\ now > exp)
          => (outcome' = "Expired" /\ result' = "challenge has expired" /\ pc' = "done")
      /\ outcome \in {"Matched", "Expired"}
          => (Returned /\ Returned' /\ outcome' = outcome /\ result' = result
              /\ input' = input /\ attempts' = attempts /\ stdout' = stdout
              /\ steps' = steps) ]_vars

C3_Witness ==
  /\ pc = "done"
  /\ outcome = "Expired"
  /\ result = "challenge has expired"
  /\ now > exp
  /\ Len(challengeBytes) > 0
  /\ TrimSpace(input) = challengeBytes

\* C4: a Mismatched submission leaves the loop running, whatever the number
\* of Mismatched submissions before it, and from the running loop a line
\* holding exactly the secret, evaluated before expiresAt, yields Matched and
\* ends the command with success.
C4_RetryThenMatch ==
  [][ /\ (Evaluates /\ outcome' = "Mismatched")
          => (pc' = "loop" /\ result' = "running" /\ tempFile' = tempFile)
      /\ (Evaluates /\ now < exp /\ input' = Append(challengeBytes, NL))
          => (outcome' = "Matched" /\ result' = "nil" /\ pc' = "done") ]_vars

C4_Witness ==
  /\ pc = "done"
  /\ outcome = "Matched"
  /\ result = "nil"
  /\ attempts = 4
  /\ Incorrects = 3
  /\ input = Append(challengeBytes, NL)

\* C5: expiresAt is set once, when the session is opened, to the clock
\* reading of that moment plus 60 seconds, and no later step changes it.
C5_DeadlineFixed ==
  [][ /\ (exp' # exp) => (pc = "open" /\ exp = NoTime /\ exp' = now + 60)
      /\ (pc = "open" /\ pc' # pc) => exp' = now + 60
      /\ (exp # NoTime) => exp' = exp ]_vars

C5_Witness ==
  /\ pc = "loop"
  /\ outcome = "Mismatched"
  /\ attempts = 3
  /\ Incorrects = 3
  /\ exp = 90
  /\ now = 90

\* C6: right after the validation of a run, a length argument that writes
\* one of 1, 2, 4, ..., 512 is accepted with that length; one that writes
\* another number of 1..512 fails with ErrChallengePow; every other length
\* argument (0, negative, above 512, not a number) fails with
\* ErrChallengeLength.
C6_LengthClassified ==
  (CommandRun /\ pc # "start" /\ Len(args) >= 1 /\ steps = {})
    => IF ValidArg(args[1])
       THEN pc = "getKey" /\ result = "running" /\ Writes(args[1], length)
       ELSE IF NonPowArg(args[1])
       THEN Returned /\ result = "ErrChallengePow"
       ELSE Returned /\ result = "ErrChallengeLength"

C6_Witness ==
  /\ pc = "done"
  /\ args = << << 49, 48, 50, 52 >> >>
  /\ result = "ErrChallengeLength"

\* C7 as claimed: a call of the generator with an invalid length, by any
\* caller, fails with ErrChallengeLength or ErrChallengePow and returns no
\* secret.
C7_GeneratorRejectsInvalid ==
  (GeneratorCalled /\ length \notin ValidLengths)
    => (result \in LengthErrors /\ challengeBytes = << >>)

\* C8: a run whose length argument is invalid has, once validated, ended
\* with a length error and has attempted nothing else: no key lookup, no
\* generation, no encryption, no temp file, no output, no line read.
C8_InvalidLengthStopsFirst ==
  (CommandRun /\ pc # "start" /\ Len(args) >= 1 /\ ~ ValidArg(args[1]))
    => (Returned /\ result \in LengthErrors /\ NothingDone)

C8_Witness ==
  /\ pc = "done"
  /\ args = << << 51 >>, << 65, 49 >> >>
  /\ Len(db) = 2
  /\ result = "ErrChallengePow"
  /\ NothingDone

\* the generator ran and returned no error
GeneratedOk ==
  \/ GeneratorCalled /\ result = "nil"
  \/ CommandRun /\ "generate" \in steps /\ result # "failed to generate challenge"

\* C9: for a valid length L and a working random source the generator does
\* not panic and returns exactly L bytes, the i-th being the charset
\* character at index (i-th random byte mod charset size).
C9_GeneratedInCharset ==
  /\ (GeneratorCalled /\ length \in ValidLengths) => result # "panic"
  /\ (GeneratedOk /\ length \in ValidLengths)
       => /\ Len(challengeBytes) = length
          /\ Len(entropy) = length
          /\ \A i \in 1..length :
               /\ challengeBytes[i] \in CharsetSet
               /\ challengeBytes[i] =
                    challengeCharset[(entropy[i] % Len(challengeCharset)) + 1]

C9_Witness ==
  /\ GeneratorCalled
  /\ length = 512
  /\ result = "nil"
  /\ entropy[1] = 255
  /\ entropy[2] = 6
  /\ challengeBytes[1] = 38

\* C10: the charset has 91 distinct characters and the i-th byte of a
\* generated secret is the charset character at index (i-th random byte
\* mod 91).
C10_Charset91 ==
  (GeneratedOk /\ Len(challengeBytes) > 0)
    => /\ Len(challengeCharset) = 91
       /\ Cardinality(CharsetSet) = 91
       /\ \A i \in 1..Len(challengeBytes) :
            challengeBytes[i] = CharAt(entropy[i] % 91)

\* the step is one iteration of the loop: the prompt is printed and a read
\* is made
SubmitStep == pc = "loop" /\ stdout' # stdout

\* the read of the step returned a whole line, newline included
LineRead == Len(input') > 0 /\ input'[Len(input')] = NL

\* C11: every line read without error, the blank line included, is evaluated
\* and yields exactly one of Matched, Mismatched and Expired; Expired ends
\* the command with the expiry error and prints no "incorrect!", Mismatched
\* prints "incorrect!" and leaves the command running, Matched ends the
\* command with success.
C11_EveryLineEvaluated ==
  [][ (SubmitStep /\ LineRead)
        => /\ attempts' = attempts + 1
           /\ outcome' \in {"Matched", "Mismatched", "Expired"}
           /\ outcome' = "Expired"
                => /\ pc' = "done"
                   /\ result' = "challenge has expired"
                   /\ Incorrects' = Incorrects
           /\ outcome' = "Mismatched"
                => /\ pc' = "loop"
                   /\ result' = "running"
                   /\ Incorrects' = Incorrects + 1
           /\ outcome' = "Matched"
                => /\ pc' = "done"
                   /\ result' = "nil"
                   /\ Incorrects' = Incorrects ]_vars

C11_Witness ==
  /\ pc = "loop"
  /\ input = << NL >>
  /\ outcome = "Mismatched"
  /\ attempts = 1
  /\ Incorrects = 1
  /\ now < exp

\* C12: a read that fails, with or without bytes read before the end of the
\* input, ends the command at once with the read error: the bytes read are
\* not evaluated, nothing but the prompt of that iteration is printed, and
\* from then on nothing is read or printed and the result stays the error.
C12_ReadFailureEndsLoop ==
  [][ /\ (SubmitStep /\ ~ LineRead)
          => /\ pc' = "done"
             /\ result' = "failed to read input"
             /\ outcome' = outcome
             /\ attempts' = attempts
             /\ stdout' = Append(stdout, Say("prompt", << >>))
      /\ result = "failed to read input"
          => /\ Returned
             /\ Returned'
             /\ result' = result
             /\ stdout' = stdout
             /\ outcome' = outcome ]_vars

C12_Witness ==
  /\ pc = "done"
  /\ result = "failed to read input"
  /\ Len(input) = 1
  /\ input = challengeBytes
  /\ outcome = "Mismatched"
  /\ attempts = 1
  /\ now < exp

\* what the command prints from the encryption on
SessionOutput ==
  SelectSeq(stdout, LAMBDA m : m.kind \in {"armored", "solve", "expires", "prompt",
                                           "incorrect", "solved"})

\* C13: each of the three calls of the encoder that fails is reported with
\* an error of its own, and the run has then ended with that error without
\* a deadline, a temp file, any challenge text written or printed, or any
\* line read.
C13_EncryptFailureAborts ==
  CommandRun
    => /\ "PGP" \in faults => result = "failed to create pgp context"
       /\ "Encrypt" \in faults => result = "failed to encrypt challenge"
       /\ "Armor" \in faults => result = "failed to armor challenge"
       /\ (faults \cap {"PGP", "Encrypt", "Armor"} # {})
            => /\ Returned
               /\ armored = NoArmor
               /\ exp = NoTime
               /\ tempFile = "none"
               /\ fileData = << >>
               /\ SessionOutput = << >>
               /\ input = << >>
               /\ attempts = 0
               /\ steps \cap {"createTemp", "read"} = {}

C13_Witness ==
  /\ pc = "done"
  /\ "Armor" \in faults
  /\ result = "failed to armor challenge"
  /\ Len(challengeBytes) = 2
  /\ selectedKey # NoKey

\* C14: whenever a call of the challenge flow has failed (the parsing of the
\* length, the key lookup, the generation, the encryption, the creation of
\* the temp file, the write of the armored challenge, the read of a
\* candidate), the command has returned an error: it is not in the loop and
\* has not succeeded.
C14_EveryFailureReturned ==
  (CommandRun /\ faults # {})
    => (Returned /\ result \notin {"running", "nil"})

\* the errors challenge returns, each a fixed text
ChallengeResults ==
  { "running", "nil", "usage", "ErrChallengeLength", "ErrChallengePow",
    "failed to query key", "failed to query keys", "failed to scan row",
    "failed to parse key", "NewKeyFromReader error",
    "failed to read choice", "invalid choice",
    "failed to generate challenge", "failed to create pgp context",
    "failed to encrypt challenge", "failed to armor challenge",
    "failed to create temp file", "failed to read input",
    "challenge has expired" }

\* the message is the challenge sealed to the selected key
SealedToKey(a) ==
  /\ a = armored
  /\ a.recipient # NoKey
  /\ a.recipient = selectedKey

\* C15: the secret leaves the command only sealed to the selected key: what
\* is printed is the key listing of getKey (an index and a stored
\* fingerprint), the armored message, the expiry time and fixed texts; what
\* is written to the temp file is the armored message; what is returned is
\* one of the fixed errors, and what is logged is that returned error. No
\* printed, written, logged or returned value carries the bytes of the
\* secret in the clear.
C15_SecretOnlySealed ==
  CommandRun
    => /\ \A i \in 1..Len(stdout) :
            LET m == stdout[i]
            IN  IF m.kind = "armored"
                THEN Len(m.data) = 1 /\ SealedToKey(m.data[1])
                ELSE IF m.kind = "expires"
                THEN m.data = << exp >>
                ELSE IF m.kind = "key"
                THEN \E k \in 1..Len(db) : Tail(m.data) = db[k].fingerprint
                ELSE /\ m.kind \in {"select", "solve", "prompt", "incorrect", "solved"}
                     /\ m.data = << >>
       /\ \A i \in 1..Len(fileData) : SealedToKey(fileData[i])
       /\ result \in ChallengeResults
       /\ \A i \in 1..Len(stderr) : stderr[i] = Say("error", << result >>)

C15_Witness ==
  /\ pc = "done"
  /\ result = "nil"
  /\ Len(challengeBytes) = 2
  /\ fileData = << armored >>
  /\ armored.sealed = challengeBytes
  /\ \E i \in 1..Len(stdout) : stdout[i].kind = "armored"
  /\ Incorrects = 1

\* C17 as claimed: the command names of the README are dispatched by main:
\* import-key runs importKey and challenge runs challenge, each with the
\* arguments after the name, and neither ends in the exit of an unknown
\* command.
C17_ReadmeCommandsDispatched ==
  [][ (pc = "main" /\ Len(args) >= 1)
        => /\ args[1] = ReadmeImportKey
                => (pc' = "import" /\ running' = "importKey" /\ args' = Tail(args))
           /\ args[1] = ReadmeChallenge
                => (pc' = "start" /\ running' = "challenge" /\ args' = Tail(args))
           /\ args[1] \in {ReadmeImportKey, ReadmeChallenge}
                => status' # "exit 1" ]_vars

\* C18: under a clock that keeps advancing and an input that keeps
\* delivering a line or a read error, every run that is in the verification
\* loop ends; and a submission evaluated once the clock has passed the
\* deadline ends it at once.
C18_LoopTerminates ==
  /\ (pc = "loop") ~> (pc = "done")
  /\ [][(Evaluates /\ now > exp) => pc' = "done"]_vars

C18_Witness ==
  /\ pc = "done"
  /\ outcome = "Expired"
  /\ attempts = MaxAttempts + 1
  /\ Incorrects = MaxAttempts
  /\ now > exp

\* the bytes that are white space
WhiteBytes == {9, 10, 11, 12, 13, 32}

\* the line is s between white space, ended by the newline
Padded(line, s) ==
  /\ Len(line) > Len(s)
  /\ line[Len(line)] = NL
  /\ \E i \in 0..(Len(line) - Len(s) - 1) :
       /\ SubSeq(line, i + 1, i + Len(s)) = s
       /\ \A k \in 1..i : line[k] \in WhiteBytes
       /\ \A k \in (i + Len(s) + 1)..Len(line) : line[k] \in WhiteBytes

\* C19 as claimed: no character of the charset is white space, so trimming
\* leaves a generated secret as it is; a line that is the secret between any
\* white space, evaluated before the deadline, yields Matched; a candidate
\* whose trimmed length differs from the length of the secret always yields
\* Mismatched.
C19_DifferentLengthAlwaysMismatched ==
  /\ [](GeneratedOk
          => /\ TrimSpace(challengeBytes) = challengeBytes
             /\ \A i \in 1..Len(challengeBytes) : challengeBytes[i] \notin WhiteBytes)
  /\ [](\A i \in 1..Len(challengeCharset) : challengeCharset[i] \notin WhiteBytes)
  /\ [][ /\ (Evaluates /\ now < exp /\ Padded(input', challengeBytes))
             => outcome' = "Matched"
         /\ (Evaluates /\ Len(TrimSpace(input')) # Len(challengeBytes))
             => outcome' = "Mismatched" ]_vars

\* C19 as amended: no character of the charset is white space, so trimming
\* leaves a generated secret as it is; a line that is the secret between any
\* white space, evaluated before the deadline, yields Matched; a candidate
\* whose trimmed length differs from the length of the secret is never
\* Matched: it yields Mismatched when it is evaluated at or before the
\* deadline and Expired, ending the command, when it is evaluated after it.
C19_TrimKeepsCorrectAnswer ==
  /\ [](GeneratedOk
          => /\ TrimSpace(challengeBytes) = challengeBytes
             /\ \A i \in 1..Len(challengeBytes) : challengeBytes[i] \notin WhiteBytes)
  /\ [](\A i \in 1..Len(challengeCharset) : challengeCharset[i] \notin WhiteBytes)
  /\ [][ /\ (Evaluates /\ now < exp /\ Padded(input', challengeBytes))
             => outcome' = "Matched"
         /\ (Evaluates /\ Len(TrimSpace(input')) # Len(challengeBytes))
             => /\ outcome' # "Matched"
                /\ (now <= exp) => (outcome' = "Mismatched" /\ pc' = "loop")
                /\ (now > exp) => (outcome' = "Expired" /\ pc' = "done") ]_vars

C19_Witness ==
  /\ pc = "done"
  /\ outcome = "Matched"
  /\ input = << 32, 97, NL >>
  /\ challengeBytes = << 97 >>
  /\ Incorrects = 1

\* the keys getKey offered, in the order it printed them
Offered == SelectSeq(stdout, LAMBDA m : m.kind = "key")

\* created_at of the stored key with the fingerprint
CreatedAt(fp) == db[CHOOSE k \in 1..Len(db) : db[k].fingerprint = fp].created_at

\* the white space a typed index may follow: nothing, or one of the space,
\* \t, \v, \f, \r, U+0085 and U+00A0
Blanks ==
  { << >>, << 32 >>, << 9 >>, << 11 >>, << 12 >>, << 13 >>, << 194, 133 >>,
    << 194, 160 >> }

\* what was typed is, after white space, the index n (one digit) and then
\* something that is no digit
TypedIndex(n) ==
  \E p \in Blanks :
    /\ Len(typed) > Len(p) + 1
    /\ SubSeq(typed, 1, Len(p)) = p
    /\ typed[Len(p) + 1] = 48 + n
    /\ typed[Len(p) + 2] \notin 48..57

\* what was typed is, after white space, a negative index
TypedNegative ==
  \E p \in Blanks :
    /\ Len(typed) > Len(p) + 2
    /\ SubSeq(typed, 1, Len(p)) = p
    /\ typed[Len(p) + 1] = 45
    /\ typed[Len(p) + 2] \in 49..57
    /\ typed[Len(p) + 3] \notin 48..57

\* a call of the key store or of the key parser failed in getKey
LookupFault == faults \cap {"Query", "Scan", "NewKey"} # {}

\* the key selection failed: the command ended with the error of getKey,
\* without a key, a secret or any challenge text
SelectionFailed ==
  /\ Returned
  /\ result \in {"failed to query key", "failed to query keys", "failed to scan row",
                 "failed to parse key", "NewKeyFromReader error",
                 "failed to read choice", "invalid choice"}
  /\ selectedKey = NoKey
  /\ "generate" \notin steps
  /\ entropy = << >>
  /\ challengeBytes = << >>
  /\ armored = NoArmor
  /\ fileData = << >>
  /\ SessionOutput = << >>

\* C20: a selection during which the key store or the key parser fails ends
\* the command with that error.  Otherwise: with a fingerprint, the key of
\* that fingerprint is selected when it is stored and the selection fails
\* when it is not; with no fingerprint, every stored key is offered, newest
\* first and numbered from 0, index i selects the i-th offered key, and a
\* negative index or one that is at least the number of stored keys fails.
\* A failed selection ends the command without a key, a secret or a
\* challenge.
C20_KeySelection ==
  (CommandRun /\ "getKey" \in steps)
    => /\ \A i \in 1..Len(Offered) :
            /\ Offered[i].data[1] = i - 1
            /\ \E k \in 1..Len(db) : db[k].fingerprint = Tail(Offered[i].data)
       /\ \A i, j \in 1..Len(Offered) :
            i < j => CreatedAt(Tail(Offered[i].data)) > CreatedAt(Tail(Offered[j].data))
       /\ "key lookup" \in faults => SelectionFailed
       /\ IF LookupFault
          THEN SelectionFailed
          ELSE IF Len(args) > 1 /\ Len(args[2]) > 0
          THEN IF \E k \in 1..Len(db) : db[k].fingerprint = ToLower(args[2])
               THEN selectedKey = ToLower(args[2]) /\ "key lookup" \notin faults
               ELSE SelectionFailed
          ELSE /\ Len(Offered) = Len(db)
               /\ \A n \in 0..9 :
                    TypedIndex(n)
                      => IF n < Len(db)
                         THEN /\ selectedKey = Tail(Offered[n + 1].data)
                              /\ "key lookup" \notin faults
                         ELSE SelectionFailed
               /\ TypedNegative => SelectionFailed

C20_Witness ==
  /\ Len(db) = 2
  /\ Len(Offered) = 2
  /\ typed = << 11, 49, NL >>
  /\ selectedKey = FpA
  /\ Tail(Offered[2].data) = FpA
  /\ "generate" \in steps

\* the step is a run of importKey on a key file
ImportStep == pc = "import" /\ Len(args) = 1

\* the key file holds a readable public key that has not expired at the time
\* the import tests it (main.go:105)
Importable ==
  /\ keyFile.kind = "key"
  /\ ~ keyFile.private
  /\ ~ IsExpired(keyFile, now)

\* the table has a row with the fingerprint
Stored(fp) == \E k \in 1..Len(db) : db[k].fingerprint = fp

\* C21: over any sequence of imports the table has at most one row per
\* fingerprint, and every row was added by the import of a readable public
\* key that had not expired when the import tested it, under its
\* fingerprint: an import of such a key whose fingerprint is not stored
\* succeeds and adds that one row, dated by the clock reading of the INSERT,
\* which is not before the test; the import of a private, expired,
\* unreadable or already stored key returns an error and leaves the table as
\* it was; nothing else changes the table.
C21_ImportKeepsStoreValid ==
  /\ [](\A i, j \in 1..Len(db) : db[i].fingerprint = db[j].fingerprint => i = j)
  /\ [][ /\ db' # db => ImportStep
         /\ (ImportStep /\ Importable /\ ~ Stored(keyFile.fingerprint))
             => /\ db' = Append(db, [fingerprint |-> keyFile.fingerprint,
                                     created_at |-> now'])
                /\ now' >= now
                /\ result' = "nil"
         /\ (ImportStep /\ ~ (Importable /\ ~ Stored(keyFile.fingerprint)))
             => /\ db' = db
                /\ result' \notin {"nil", "running"} ]_vars

C21_Witness ==
  /\ pc = "done"
  /\ imports = 3
  /\ Len(db) = 1
  /\ db[1].fingerprint = FpA
  /\ keyFile.fingerprint = FpB
  /\ ~ keyFile.private
  /\ keyFile.expires = 45
  /\ result = "ErrKeyExp"

\* C22 as claimed: a temp file that was created is present only while the
\* command writes the challenge and runs the loop; every step by which the
\* command returns, whether with success, with the expiry error or with the
\* read error, removes it, so no run has returned with the file still
\* present, and a removed file stays removed.
C22_TempFileRemovedOnReturn ==
  /\ [](CommandRun
          => /\ tempFile = "present" => pc \in {"emit", "loop"}
             /\ Returned => tempFile \in {"none", "removed"}
             /\ (Returned /\ "read" \in steps) => tempFile = "removed")
  /\ [][ /\ (tempFile = "present" /\ pc' = "done")
             => /\ tempFile' = "removed"
                /\ result' \in {"nil", "challenge has expired", "failed to read input"}
         /\ tempFile = "removed" => tempFile' = "removed" ]_vars

====
